---- MODULE Spec2Model ----
\* Board API (src/src/main.rs, src/src/post.rs): five handlers over one table
\* "posts".  The store is the set of rows of that table; every handler is a
\* sequence of store statements, and a statement is one atomic step.  Store and
\* connection failures are not modelled: every statement reaches the store.
EXTENDS Integers, Sequences, FiniteSets, TLC

VARIABLES
    posts,    \* the rows of table "posts" (post.rs: Model)
    nextId,   \* the store's generator for the primary key
    now,      \* the store's clock, read by the timestamp defaults
    upd,      \* per update_post request: where it is between its two statements
    last      \* the response of the request that completed last

vars == <<posts, nextId, now, upd, last>>

\* ---------------------------------------------------------------- bounds
\* write statements a behaviour may issue (the clock stops there)
MaxWrites == 2
\* rows the table may hold when the service starts
MaxInit == 2
\* largest page number a list request carries
MaxPage == 3
\* largest of the small tables of the listing-only specification
MaxRows == 4

\* ---------------------------------------------------------------- values
None == <<>>
Some(x) == <<x>>
UnwrapOr(o, d) == IF o = None THEN d ELSE o[1]

Max(a, b) == IF a >= b THEN a ELSE b
Min(a, b) == IF a <= b THEN a ELSE b
Clamp(x, lo, hi) == Max(lo, Min(x, hi))

\* two update_post requests may be in flight together
Tasks == {"a", "b"}

Columns == {"id", "title", "body", "author_id", "is_pinned", "created_at", "updated_at"}

\* sea_orm ActiveValue
Set(v) == [tag |-> "Set", v |-> v]
Unchanged(v) == [tag |-> "Unchanged", v |-> v]
NotSet == [tag |-> "NotSet", v |-> None]

NOT_FOUND == 404
INTERNAL_SERVER_ERROR == 500
OK == 200

DefaultPage == 1
DefaultPerPage == 20
MinPerPage == 1
MaxPerPage == 100

Ids(S) == {p.id : p \in S}

\* ---------------------------------------------------------------- store
\* a lookup that falls back to some row when none has the id
FindFirst(id) ==
    LET hit == {p \in posts : p.id = id}
    IN  IF posts = {} THEN None
        ELSE IF hit = {} THEN Some(CHOOSE p \in posts : TRUE)
        ELSE Some(CHOOSE p \in hit : TRUE)

\* SELECT ... WHERE id = ?  (at most one row is returned)
FindById(id) ==
    LET hit == {p \in posts : p.id = id}
    IN  IF hit = {} THEN None ELSE Some(CHOOSE p \in hit : TRUE)

\* the rows of S with is_pinned = pinned, by id descending
ScanIdDesc(S, pinned) ==
    LET part == {p \in S : p.is_pinned = pinned}
        ids == Ids(part)
        hi == IF ids = {} THEN 0 ELSE CHOOSE m \in ids : \A k \in ids : m >= k
        down == [i \in 1..hi |-> hi + 1 - i]
        found == SelectSeq(down, LAMBDA k : k \in ids)
    IN  [i \in 1..Len(found) |-> CHOOSE p \in part : p.id = found[i]]

\* the order with is_pinned ascending: the unpinned rows first
OrderByPinnedAsc(S) == ScanIdDesc(S, FALSE) \o ScanIdDesc(S, TRUE)

\* SELECT * FROM posts ORDER BY is_pinned DESC, id DESC
OrderByDesc(S) == ScanIdDesc(S, TRUE) \o ScanIdDesc(S, FALSE)

\* paginate(db, per).fetch_page(page): LIMIT per OFFSET per * page
FetchPage(sorted, per, page) ==
    LET offset == per * page
    IN  SubSeq(sorted, offset + 1, Min(offset + per, Len(sorted)))

\* a key taken from the number of rows: it repeats after a delete
CountPlusOne == Cardinality(posts) + 1

\* #[sea_orm(primary_key)]: the key is auto-increment, the store generates it
AutoIncrement == nextId

\* the value the store gives a column the INSERT statement leaves out
ColumnDefault(c) ==
    CASE c = "id" -> AutoIncrement
      [] c = "author_id" -> None
      [] c = "is_pinned" -> FALSE
      [] c = "created_at" -> now
      [] c = "updated_at" -> now
      [] OTHER -> ""

\* INSERT INTO posts (<the Set columns>) ... RETURNING *
InsertRow(am) ==
    [c \in Columns |-> IF am[c].tag = "Set" THEN am[c].v ELSE ColumnDefault(c)]

\* an UPDATE that writes every column of the ActiveModel, the Unchanged ones too
UpdateAllColumns(am, p) ==
    [c \in Columns |-> am[c].v]

\* UPDATE posts SET <the Set columns> WHERE id = <am.id>: the row as written
UpdateRow(am, p) ==
    [c \in Columns |-> IF am[c].tag = "Set" THEN am[c].v ELSE p[c]]

\* ---------------------------------------------------------------- responses
Response(op, id, status, body, input) ==
    [op |-> op, id |-> id, status |-> status, body |-> body, input |-> input]

NoInput == [title |-> None, body |-> None]
NoResponse == Response("none", 0, 0, <<>>, NoInput)
Idle == [pc |-> "idle", id |-> 0, input |-> NoInput, am |-> [c \in Columns |-> NotSet]]

\* ---------------------------------------------------------------- handlers
\* GET /posts
\* the page number taken as the zero-based index: the "- 1" left out
ListPageOneBased(page) == Max(UnwrapOr(page, DefaultPage), 1)

ListPage(page) == Max(UnwrapOr(page, DefaultPage), 1) - 1
ListPer(per_page) == Clamp(UnwrapOr(per_page, DefaultPerPage), MinPerPage, MaxPerPage)

ListRows(S, page, per_page) ==
    FetchPage(OrderByDesc(S), ListPer(per_page), ListPage(page))

list_posts(page, per_page) ==
    /\ last' = Response("list", 0, OK, ListRows(posts, page, per_page),
                        [page |-> page, per_page |-> per_page])
    /\ UNCHANGED <<posts, nextId, now, upd>>

\* GET /posts/:id
get_post(id) ==
    /\ LET post == FindById(id)
       IN  last' = IF post = None
                   THEN Response("get", id, NOT_FOUND, <<>>, NoInput)
                   ELSE Response("get", id, OK, post, NoInput)
    /\ UNCHANGED <<posts, nextId, now, upd>>

\* an ActiveModel with title and body exchanged
CreateActiveModelSwapped(input) ==
    [c \in Columns |->
        CASE c = "title" -> Set(input.body)
          [] c = "body" -> Set(input.title)
          [] OTHER -> NotSet]

\* POST /posts: only title and body are Set, ..Default::default() leaves the rest
\* NotSet; INSERT ... RETURNING * gives the row as stored
CreateActiveModel(input) ==
    [c \in Columns |->
        CASE c = "title" -> Set(input.title)
          [] c = "body" -> Set(input.body)
          [] OTHER -> NotSet]

create_post(input) ==
    /\ now <= MaxWrites
    /\ LET created == InsertRow(CreateActiveModel(input))
       IN  /\ posts' = posts \cup {created}
           /\ last' = Response("create", created.id, OK, <<created>>, input)
    /\ nextId' = nextId + 1
    /\ now' = now + 1
    /\ UNCHANGED upd

\* PUT /posts/:id, first statement: find_by_id; Model.into() makes every column
\* Unchanged, then the fields the input carries are Set
UpdateActiveModel(found, input) ==
    [c \in Columns |->
        CASE c = "title" /\ input.title # None -> Set(input.title[1])
          [] c = "body" /\ input.body # None -> Set(input.body[1])
          [] OTHER -> Unchanged(found[c])]

update_post_find(t, id, input) ==
    /\ upd[t].pc = "idle"
    /\ LET found == FindById(id)
       IN  IF found = None
           THEN /\ last' = Response("update", id, NOT_FOUND, <<>>, input)
                /\ UNCHANGED upd
           ELSE /\ upd' = [upd EXCEPT ![t] =
                              [pc |-> "found", id |-> id, input |-> input,
                               am |-> UpdateActiveModel(found[1], input)]]
                /\ UNCHANGED last
    /\ UNCHANGED <<posts, nextId, now>>

\* PUT /posts/:id, second statement: am.update.  sea_orm issues
\* UPDATE posts SET <the Set columns> WHERE id = <am.id> RETURNING *; when no row
\* matches it returns DbErr::RecordNotUpdated, which map_err(anyhow_to_poem)
\* turns into 500.  With no column Set it re-reads the row by id instead, and a
\* missing row is an error (500) as well.
update_post_write(t) ==
    /\ upd[t].pc = "found"
    /\ now <= MaxWrites
    /\ LET am == upd[t].am
           hit == {p \in posts : p.id = am["id"].v}
           updated == {UpdateRow(am, p) : p \in hit}
       IN  /\ posts' = (posts \ hit) \cup updated
           /\ last' = IF hit = {}
                      THEN Response("update", upd[t].id, INTERNAL_SERVER_ERROR, <<>>, upd[t].input)
                      ELSE Response("update", upd[t].id, OK,
                                    <<CHOOSE p \in updated : TRUE>>, upd[t].input)
    /\ upd' = [upd EXCEPT ![t] = Idle]
    /\ now' = now + 1
    /\ UNCHANGED nextId

\* delete_post without the rows_affected check: it answers 200 always
delete_post_unchecked(id) ==
    /\ now <= MaxWrites
    /\ LET hit == {p \in posts : p.id = id}
       IN  /\ posts' = posts \ hit
           /\ last' = Response("delete", id, OK, <<>>, NoInput)
    /\ now' = now + 1
    /\ UNCHANGED <<nextId, upd>>

\* DELETE /posts/:id: DELETE FROM posts WHERE id = ?, then the rows_affected check
delete_post(id) ==
    /\ now <= MaxWrites
    /\ LET hit == {p \in posts : p.id = id}
           rows_affected == Cardinality(hit)
       IN  /\ posts' = posts \ hit
           /\ last' = IF rows_affected = 0
                      THEN Response("delete", id, NOT_FOUND, <<>>, NoInput)
                      ELSE Response("delete", id, OK, <<>>, NoInput)
    /\ now' = now + 1
    /\ UNCHANGED <<nextId, upd>>

\* ---------------------------------------------------------------- specification
\* a row that was in the table before the service started
StoredRow(id, pinned) ==
    [c \in Columns |->
        CASE c = "id" -> id
          [] c = "title" -> "T"
          [] c = "body" -> "B"
          [] c = "author_id" -> Some(id)
          [] c = "is_pinned" -> pinned
          [] OTHER -> 0]

\* the tables the service may start on: empty, or rows 1..MaxInit with the odd
\* ids pinned
InitStores ==
    { {StoredRow(i, i % 2 = 1) : i \in 1..n} : n \in {0, MaxInit} }

Init ==
    /\ posts \in InitStores
    /\ nextId = Cardinality(posts) + 1
    /\ now = 1
    /\ upd = [t \in Tasks |-> Idle]
    /\ last = NoResponse

IdInputs == 1..nextId
PageInputs == {None}
PerPageInputs == {None, Some(1)}
CreateInputs == [title : {"T"}, body : {"B"}]
\* PostUpdate with no field, with a title only, with a body only
UpdateInputs ==
    {[title |-> None, body |-> None],
     [title |-> Some("New"), body |-> None],
     [title |-> None, body |-> Some("NewB")]}

Next ==
    \/ \E page \in PageInputs, per_page \in PerPageInputs : list_posts(page, per_page)
    \/ \E id \in IdInputs : get_post(id)
    \/ \E input \in CreateInputs : create_post(input)
    \/ \E t \in Tasks, id \in IdInputs, input \in UpdateInputs : update_post_find(t, id, input)
    \/ \E t \in Tasks : update_post_write(t)
    \/ \E id \in IdInputs : delete_post(id)

Spec == Init /\ [][Next]_vars

\* ---------------------------------------------------------------- listing only
\* list_posts as a function of the table: the table is drawn from ListStores and
\* only list requests are made.
BigSizes == {DefaultPerPage, DefaultPerPage + 1, MaxPerPage, MaxPerPage + 1}

\* rows with ids stride, 2*stride, ..., n*stride; every m-th of them pinned (none if m = 0)
ListStore(n, stride, m) ==
    {StoredRow(stride * i, m # 0 /\ i % m = 0) : i \in 1..n}

ListStores ==
    {ListStore(n, stride, m) : n \in 0..MaxRows, stride \in 1..2, m \in 0..3}
    \cup {ListStore(n, 1, m) : n \in BigSizes, m \in {0, 3}}

ListPageInputs == {None} \cup {Some(n) : n \in 0..MaxPage}
ListPerPageInputs ==
    {None} \cup {Some(n) : n \in (0..3) \cup {MaxPerPage, MaxPerPage + 1}}

InitList ==
    /\ posts \in ListStores
    /\ nextId = 2 * Cardinality(posts) + 1
    /\ now = 1
    /\ upd = [t \in Tasks |-> Idle]
    /\ last = NoResponse

NextList ==
    \E page \in ListPageInputs, per_page \in ListPerPageInputs : list_posts(page, per_page)

SpecList == InitList /\ [][NextList]_vars

\* ---------------------------------------------------------------- C1, C2
\* the order the specification gives: a is strictly before b
Before(a, b) ==
    \/ a.is_pinned /\ ~b.is_pinned
    \/ a.is_pinned = b.is_pinned /\ a.id > b.id

\* the number of rows of S that are before x: its index in the fully ordered relation
RankOf(x, S) == Cardinality({q \in S : Before(q, x)})

\* rows is the slice [from, from + n) of the fully ordered relation of S
IsSlice(rows, S, from, n) ==
    /\ Len(rows) = Max(0, Min(n, Cardinality(S) - from))
    /\ \A i \in 1..Len(rows) : rows[i] \in S /\ RankOf(rows[i], S) = from + i - 1

\* p and n as the specification computes them from the query parameters
SpecPage(page) ==
    LET raw == IF page = None THEN 1 ELSE page[1]
    IN  (IF raw < 1 THEN 1 ELSE raw) - 1

SpecPer(per_page) ==
    LET raw == IF per_page = None THEN 20 ELSE per_page[1]
    IN  IF raw < 1 THEN 1 ELSE IF raw > 100 THEN 100 ELSE raw

C2_Ordered ==
    last.op = "list" =>
        \A i, j \in 1..Len(last.body) :
            i < j => Before(last.body[i], last.body[j])

\* a response where a pinned post stands before an unpinned post of higher id
C2_Witness ==
    /\ last.op = "list"
    /\ Len(last.body) >= 3
    /\ \E i, j \in 1..Len(last.body) :
          /\ i < j
          /\ last.body[i].is_pinned /\ ~last.body[j].is_pinned
          /\ last.body[i].id < last.body[j].id
    /\ \E i, j \in 1..Len(last.body) :
          i < j /\ last.body[i].is_pinned = last.body[j].is_pinned

\* ---------------------------------------------------------------- C3 .. C10
\* the row of S with the given id
Row(S, id) == CHOOSE p \in S : p.id = id

\* this step is the write of update request t, and the request succeeded
UpdateSucceeds(t) ==
    upd[t].pc = "found" /\ upd'[t].pc = "idle" /\ last'.status = 200

\* C3: a successful update_post replaces title only if the input carries a title
\* and body only if it carries a body; absent fields keep their stored value; id,
\* is_pinned, author_id and created_at are not changed; every other post is
\* unchanged; the returned Post is the post as persisted after the merge.
C3_PartialMerge ==
    [][\A t \in Tasks : UpdateSucceeds(t) =>
          /\ upd[t].id \in Ids(posts) /\ upd[t].id \in Ids(posts')
          /\ LET old == Row(posts, upd[t].id)
                 new == Row(posts', upd[t].id)
                 input == upd[t].input
             IN  /\ new.title = (IF input.title = None THEN old.title ELSE input.title[1])
                 /\ new.body = (IF input.body = None THEN old.body ELSE input.body[1])
                 /\ new.id = old.id
                 /\ new.is_pinned = old.is_pinned
                 /\ new.author_id = old.author_id
                 /\ new.created_at = old.created_at
                 /\ posts' \ {new} = posts \ {old}
                 /\ last'.op = "update" /\ last'.body = <<new>>]_vars

\* a title-only update answered on a pinned post whose body another update had
\* replaced: the title is new, the body is the other update's
C3_Witness ==
    /\ last.op = "update" /\ last.status = 200
    /\ last.input = [title |-> Some("New"), body |-> None]
    /\ last.body[1] \in posts
    /\ last.body[1].title = "New" /\ last.body[1].body = "NewB"
    /\ last.body[1].is_pinned

\* C4: get_post and update_post whose lookup finds no row with the id answer
\* NotFound (404), and the store is left exactly as it was.
C4_NotFound ==
    [][\A id \in 1..nextId : id \notin Ids(posts) =>
          /\ get_post(id) =>
                /\ last'.op = "get" /\ last'.id = id
                /\ last'.status = 404 /\ last'.body = <<>>
                /\ posts' = posts
          /\ \A t \in Tasks, input \in UpdateInputs :
                update_post_find(t, id, input) =>
                    /\ last'.op = "update" /\ last'.id = id
                    /\ last'.status = 404 /\ last'.body = <<>>
                    /\ posts' = posts /\ upd' = upd]_vars

\* an update answered 404 on a store that holds other posts
C4_Witness ==
    /\ last.op = "update" /\ last.status = 404
    /\ last.id \notin Ids(posts)
    /\ posts # {}

DeleteSucceeded(id) == last.op = "delete" /\ last.id = id /\ last.status = 200

\* C5: delete_post on a present id succeeds and removes exactly that post; the
\* delete_post on the same id that follows answers NotFound and leaves the store
\* as the first delete left it; the get_post that follows a successful delete of
\* the id answers NotFound.
C5_Delete ==
    [][\A id \in 1..nextId :
          /\ (id \in Ids(posts) /\ delete_post(id)) =>
                /\ last'.op = "delete" /\ last'.status = 200
                /\ id \notin Ids(posts')
                /\ posts' \subseteq posts
                /\ \A p \in posts : p.id # id => p \in posts'
          /\ (DeleteSucceeded(id) /\ delete_post(id)) =>
                /\ last'.op = "delete" /\ last'.status = 404
                /\ posts' = posts
          /\ (DeleteSucceeded(id) /\ get_post(id)) =>
                /\ last'.op = "get" /\ last'.status = 404]_vars

\* the second delete of an id the store once held: NotFound, another post kept
C5_Witness ==
    /\ last.op = "delete" /\ last.status = 404
    /\ last.id < nextId
    /\ last.id \notin Ids(posts)
    /\ posts # {}

\* C6: create_post({title: T, body: B}) returns a Post with a store-generated id,
\* title T and body B; the get_post on that id that follows yields a Post with the
\* same id, title T, body B, is_pinned = false and author_id = null.
C6_CreateThenGet ==
    [][/\ \A input \in CreateInputs :
            create_post(input) =>
                /\ last'.op = "create" /\ last'.status = 200
                /\ Len(last'.body) = 1
                /\ last'.body[1].id \notin Ids(posts)
                /\ last'.body[1].title = input.title
                /\ last'.body[1].body = input.body
                /\ last'.input = input
       /\ \A id \in 1..nextId :
            (last.op = "create" /\ last.status = 200 /\ last.id = id /\ get_post(id)) =>
                /\ last'.op = "get" /\ last'.status = 200
                /\ Len(last'.body) = 1
                /\ last'.body[1].id = last.body[1].id
                /\ last'.body[1].title = last.input.title
                /\ last'.body[1].body = last.input.body
                /\ last'.body[1].is_pinned = FALSE
                /\ last'.body[1].author_id = None]_vars

\* a get answered with a post that create_post made (the stored rows have authors)
C6_Witness ==
    /\ last.op = "get" /\ last.status = 200
    /\ last.body[1].author_id = None
    /\ last.body[1].title = "T" /\ last.body[1].body = "B"
    /\ last.body[1].created_at > 0

IsCreate == \E input \in CreateInputs : create_post(input)
IsDelete == \E id \in 1..nextId : delete_post(id)

\* C7: no two posts in the store share an id; every create_post adds exactly one
\* row, whose id is the id of no post then in the store; no operation changes
\* the id of an existing post (only delete_post takes an id out of the store, only
\* create_post brings one in).
C7_UniqueIds ==
    /\ [](Cardinality(Ids(posts)) = Cardinality(posts))
    /\ [][/\ IsCreate =>
                \E new \in posts' :
                    /\ new.id \notin Ids(posts)
                    /\ new \notin posts
                    /\ posts' = posts \cup {new}
          /\ ~IsCreate => Ids(posts') \subseteq Ids(posts)
          /\ ~IsDelete => Ids(posts) \subseteq Ids(posts')
          /\ Cardinality(Ids(posts')) = Cardinality(posts')]_vars

\* a post was created after a post had been deleted
C7_Witness ==
    /\ last.op = "create"
    /\ nextId > Cardinality(posts) + 1
    /\ Cardinality(posts) >= 2

\* C8: updated_at is refreshed on every mutation: after a successful update_post
\* the post's updated_at is the time of that update, later than it was; after
\* create_post it is the creation time.
C8_UpdatedAtRefreshed ==
    [][/\ \A t \in Tasks : UpdateSucceeds(t) =>
              /\ Row(posts', upd[t].id).updated_at = now
              /\ Row(posts', upd[t].id).updated_at > Row(posts, upd[t].id).updated_at
       /\ IsCreate => last'.body[1].updated_at = now]_vars

\* C9: every handler performs one store operation per request, so a request is
\* atomic: while it is between its observation of the store and its write no
\* other request's operation takes effect (the row it observed is the row its
\* write finds), and a failed request leaves the store unchanged.
C9_OneStatement ==
    [][/\ \A t \in Tasks :
              (upd[t].pc = "found" /\ upd'[t].pc = "found") =>
                  {p \in posts' : p.id = upd[t].id} = {p \in posts : p.id = upd[t].id}
       /\ (last' # last /\ last'.status # 200) => posts' = posts]_vars

\* C10: update_post racing delete_post on the same id ends with success or with
\* NotFound (404), never with an internal error (500); and a post delete_post
\* removed is never brought back by a late update write.
C10_UpdateDeleteRace ==
    [][/\ last'.op = "update" => last'.status \in {200, 404}
       /\ ~IsCreate => Ids(posts') \subseteq Ids(posts)]_vars

====
